---- MODULE Spec2Model ----
(***************************************************************************)
(* p_linked_list: a doubly-linked list with head/tail/ordered insertion    *)
(* and head/tail removal (src/src/p_linked_list.c).                        *)
(*                                                                         *)
(* Nodes live in a heap indexed by node addresses 1..MaxNodes; NULL is 0.  *)
(* Every C function is an operator over a machine record m that carries    *)
(* the list's fields, the heap, the allocator's state and the memory fault *)
(* met so far ("none", "uaf" for an access to freed storage, "null" for a  *)
(* NULL dereference, "loop" for a traversal that never ends, "abort" for a  *)
(* failed assert).                                                         *)
(*                                                                         *)
(* src/unnamed/part_001 is an earlier p_linked_list.c, without comparator   *)
(* and ordered insertion; its functions carry the prefix part_001_.        *)
(***************************************************************************)
EXTENDS Integers, Sequences, FiniteSets, TLC

\* Bounds of the model.
MaxAdds == 3        \* add_element calls that succeed in a run of Spec
MaxOrderAdds == 4   \* add_element calls that succeed in a run of SpecOrder
NumElems == 2       \* element references the caller owns
MaxUb == 2          \* calls followed after they accessed freed storage

\* enum order (p_linked_list.h)
OR_HEAD == 0
OR_TAIL == 1
OR_ORDER == 2

NULL == 0
LIST == 1           \* the one list handle the caller holds

Orders == {OR_HEAD, OR_TAIL, OR_ORDER}
Elems == 1..NumElems
MaxNodes == (IF MaxAdds > MaxOrderAdds THEN MaxAdds ELSE MaxOrderAdds) + 1
NodeIds == 1..MaxNodes

\* The int an element reference points to: references 2 and 3 point to
\* equal ints, so that distinct elements can tie.
Value(e) == (e + 2) \div 2

\* The caller's three-way ascending comparator.
cmpfn(a, b) == IF Value(a) < Value(b) THEN -1 ELSE IF Value(a) > Value(b) THEN 1 ELSE 0

linked_list_node_t(data, next, prev) == [le_data |-> data, le_next |-> next, le_prev |-> prev]

VARIABLES
    list_state,      \* "absent" (no list yet), "live", "destroyed"
    pt_list_head,    \* struct p_linked_list
    pt_list_tail,
    pt_cmpfn,        \* TRUE iff a comparator was given to create
    pt_deallocator,  \* TRUE iff a deallocator is set
    heap,            \* node address -> linked_list_node_t
    allocated,       \* node addresses calloc returned and free has not seen
    used,            \* node addresses whose contents can still matter
    run,             \* the calls that succeeded since the last add on an empty list
    nadd,            \* add_element calls that succeeded
    held,            \* nadd minus the remove_element calls that succeeded
    dealloc_calls,   \* arguments the deallocator was called with, in order
    ret,             \* the last call: the arguments it read and what it returned
    status,          \* "running", "crashed", "hung"
    ub               \* calls that accessed freed storage and went on

vars == <<list_state, pt_list_head, pt_list_tail, pt_cmpfn, pt_deallocator, heap,
          allocated, used, run, nadd, held, dealloc_calls, ret, status, ub>>

----------------------------------------------------------------------------
\* Memory accesses.

Fatal(m) == m.fault \in {"null", "loop", "abort"}

\* A dereference of node pointer n.
Acc(m, n) ==
    IF Fatal(m) THEN m
    ELSE IF n = NULL THEN [m EXCEPT !.fault = "null"]
    ELSE IF n \notin m.allocated THEN [m EXCEPT !.fault = "uaf"]
    ELSE m

\* n->f, the value found in memory (a freed node still shows what was last written).
Rd(m, n, f) == IF n = NULL THEN NULL ELSE m.heap[n][f]

\* n->f = v
Wr(m, n, f, v) ==
    LET a == Acc(m, n)
    IN  IF n = NULL \/ Fatal(a) THEN a ELSE [a EXCEPT !.heap[n][f] = v]

\* calloc(1, sizeof(*node)) returning address n
calloc(m, n) ==
    [m EXCEPT !.allocated = @ \cup {n}, !.used = @ \cup {n},
              !.heap[n] = linked_list_node_t(NULL, NULL, NULL)]

\* free(n)
free(m, n) ==
    IF Fatal(m) \/ n = NULL THEN m
    ELSE IF n \notin m.allocated THEN [m EXCEPT !.fault = "uaf"]
    ELSE [m EXCEPT !.allocated = @ \ {n}]

\* The addresses calloc may return: a freed one that some pointer still
\* refers to, or one that nothing refers to (they are all alike: the lowest).
AllocChoices(al, us) ==
    (us \ al) \cup (IF NodeIds \ us = {} THEN {}
                    ELSE {CHOOSE n \in NodeIds \ us : \A k \in NodeIds \ us : n <= k})

\* The nodes the list can still reach: from the head and then from the tail,
\* through le_next and le_prev, each node once, in the order met.
RECURSIVE Visit(_, _, _)
Visit(hp, seq, n) ==
    IF n = NULL \/ \E i \in 1..Len(seq) : seq[i] = n THEN seq
    ELSE Visit(hp, Visit(hp, Append(seq, n), hp[n].le_next), hp[n].le_prev)

RECURSIVE SeqOf(_)
SeqOf(S) ==
    IF S = {} THEN <<>>
    ELSE LET x == CHOOSE y \in S : \A z \in S : y <= z IN <<x>> \o SeqOf(S \ {x})

\* The addresses that matter after a call, in a fixed order: the nodes the
\* list can reach (freed ones among them, when a pointer to them is left),
\* then the allocated nodes it cannot reach any more.
Layout(m) ==
    LET reach == Visit(m.heap, Visit(m.heap, <<>>, m.pt_list_head), m.pt_list_tail)
    IN  [reach |-> reach,
         all |-> reach \o SeqOf(m.allocated \ {reach[i] : i \in 1..Len(reach)})]

\* Which address a node has is no part of the program's behaviour: the nodes
\* are renumbered in the order of Layout. Storage the list cannot reach is
\* never read again: the contents of a lost node are forgotten, and so is
\* freed storage that no pointer leads to.
Normalize(m) ==
    LET lay == Layout(m)
        all == lay.all
        New(n) == IF n = NULL THEN NULL ELSE CHOOSE i \in 1..Len(all) : all[i] = n
    IN  [m EXCEPT !.pt_list_head = New(@), !.pt_list_tail = New(@),
                  !.allocated = {New(n) : n \in @},
                  !.used = 1..Len(all),
                  !.heap = [i \in NodeIds |->
                              IF i <= Len(lay.reach)
                              THEN linked_list_node_t(m.heap[all[i]].le_data,
                                                      New(m.heap[all[i]].le_next),
                                                      New(m.heap[all[i]].le_prev))
                              ELSE linked_list_node_t(NULL, NULL, NULL)]]

----------------------------------------------------------------------------
\* The functions of p_linked_list.c. The selectors are the three values of
\* enum order; the default branches of the two switches, which no value of
\* the enum takes, are left out.

p_linked_list_is_empty(m, linked_list) ==
    IF linked_list = NULL \/ m.pt_list_head = NULL THEN 1 ELSE 0

\* insert_at_head without its last assignment, list->pt_list_head = node.
insert_at_head_keeps_head(m, list, node) ==
    IF list = NULL \/ node = NULL \/ p_linked_list_is_empty(m, list) = 1
    THEN [ret |-> 0, m |-> m]
    ELSE LET m1 == Wr(m, node, "le_next", m.pt_list_head)
             m2 == Wr(m1, m1.pt_list_head, "le_prev", node)
         IN  [ret |-> 1, m |-> m2]

insert_at_head(m, list, node) ==
    IF list = NULL \/ node = NULL \/ p_linked_list_is_empty(m, list) = 1
    THEN [ret |-> 0, m |-> m]
    ELSE LET m1 == Wr(m, node, "le_next", m.pt_list_head)
             m2 == Wr(m1, m1.pt_list_head, "le_prev", node)
         IN  [ret |-> 1, m |-> [m2 EXCEPT !.pt_list_head = node]]

\* insert_at_tail with the body of insert_at_head pasted in.
insert_at_tail_at_head(m, list, node) ==
    IF list = NULL \/ node = NULL \/ p_linked_list_is_empty(m, list) = 1
       \/ m.pt_list_tail = NULL
    THEN [ret |-> 0, m |-> m]
    ELSE LET m1 == Wr(m, node, "le_next", m.pt_list_head)
             m2 == Wr(m1, m1.pt_list_head, "le_prev", node)
         IN  [ret |-> 1, m |-> [m2 EXCEPT !.pt_list_head = node]]

insert_at_tail(m, list, node) ==
    IF list = NULL \/ node = NULL \/ p_linked_list_is_empty(m, list) = 1
       \/ m.pt_list_tail = NULL
    THEN [ret |-> 0, m |-> m]
    ELSE LET m1 == Wr(m, node, "le_prev", m.pt_list_tail)
             m2 == Wr(m1, m1.pt_list_tail, "le_next", node)
         IN  [ret |-> 1, m |-> [m2 EXCEPT !.pt_list_tail = node]]

\* The for loop of insert_in_order: the first node from tmp on whose element
\* compares greater than data, or NULL.
RECURSIVE scan(_, _, _, _)
scan(m, data, tmp, fuel) ==
    IF tmp = NULL THEN [tmp |-> NULL, m |-> m]
    ELSE IF fuel = 0 THEN [tmp |-> NULL, m |-> [m EXCEPT !.fault = "loop"]]
    ELSE LET a == Acc(m, tmp)
         IN  IF cmpfn(data, Rd(a, tmp, "le_data")) < 0
             THEN [tmp |-> tmp, m |-> a]
             ELSE scan(a, data, Rd(a, tmp, "le_next"), fuel - 1)

\* insert_in_order without its first test, list->pt_cmpfn == NULL.
insert_in_order_unchecked(m, list, node) ==
    IF list = NULL \/ node = NULL \/ p_linked_list_is_empty(m, list) = 1
    THEN [ret |-> 0, m |-> m]
    ELSE LET s == scan(m, Rd(m, node, "le_data"), m.pt_list_head, MaxNodes + 1)
             tmp == s.tmp
         IN  IF Fatal(s.m) THEN [ret |-> 0, m |-> s.m]
             ELSE IF tmp = s.m.pt_list_head THEN insert_at_head(s.m, list, node)
             ELSE IF tmp = NULL THEN insert_at_tail(s.m, list, node)
             ELSE LET m1 == Wr(s.m, node, "le_next", tmp)
                      p  == Rd(Acc(m1, tmp), tmp, "le_prev")
                      m2 == Wr(Acc(m1, tmp), node, "le_prev", p)
                      m3 == Wr(m2, p, "le_next", node)
                  IN  [ret |-> 1, m |-> m3]

insert_in_order(m, list, node) ==
    IF ~m.pt_cmpfn THEN [ret |-> 0, m |-> m]
    ELSE IF list = NULL \/ node = NULL \/ p_linked_list_is_empty(m, list) = 1
    THEN [ret |-> 0, m |-> m]
    ELSE LET s == scan(m, Rd(m, node, "le_data"), m.pt_list_head, MaxNodes + 1)
             tmp == s.tmp
         IN  IF Fatal(s.m) THEN [ret |-> 0, m |-> s.m]
             ELSE IF tmp = s.m.pt_list_head THEN insert_at_head(s.m, list, node)
             ELSE IF tmp = NULL THEN insert_at_tail(s.m, list, node)
             ELSE LET m1 == Wr(s.m, node, "le_next", tmp)
                      p  == Rd(Acc(m1, tmp), tmp, "le_prev")
                      m2 == Wr(Acc(m1, tmp), node, "le_prev", p)
                      m3 == Wr(m2, p, "le_next", node)
                  IN  [ret |-> 1, m |-> m3]

\* p_linked_list_add_element without its branch for the empty list: the
\* switch on add_order is entered in every list state.
add_element_always_switch(m, list, node, element, add_order) ==
    IF list = NULL THEN [ret |-> 0, m |-> m]
    ELSE IF node = NULL THEN [ret |-> 0, m |-> m]
    ELSE LET m1 == Wr(calloc(m, node), node, "le_data", element)
             r == CASE add_order = OR_HEAD -> insert_at_head(m1, list, node)
                    [] add_order = OR_TAIL -> insert_at_tail(m1, list, node)
                    [] add_order = OR_ORDER -> insert_in_order(m1, list, node)
         IN  IF r.ret = 0 /\ ~Fatal(r.m)
             THEN [ret |-> 0, m |-> free(r.m, node)]
             ELSE r

\* p_linked_list_add_element without its test node == NULL.
add_element_node_unchecked(m, list, node, element, add_order) ==
    IF list = NULL THEN [ret |-> 0, m |-> m]
    ELSE LET m1 == IF node = NULL THEN Acc(m, node)
                   ELSE Wr(calloc(m, node), node, "le_data", element)
         IN  IF Fatal(m1) THEN [ret |-> 0, m |-> m1]
             ELSE IF p_linked_list_is_empty(m1, list) = 1
             THEN [ret |-> 1, m |-> [m1 EXCEPT !.pt_list_head = node, !.pt_list_tail = node]]
             ELSE LET r == CASE add_order = OR_HEAD -> insert_at_head(m1, list, node)
                             [] add_order = OR_TAIL -> insert_at_tail(m1, list, node)
                             [] add_order = OR_ORDER -> insert_in_order(m1, list, node)
                  IN  IF r.ret = 0 /\ ~Fatal(r.m)
                      THEN [ret |-> 0, m |-> free(r.m, node)]
                      ELSE r

p_linked_list_add_element(m, list, node, element, add_order) ==
    IF list = NULL THEN [ret |-> 0, m |-> m]
    ELSE IF node = NULL THEN [ret |-> 0, m |-> m]
    ELSE LET m1 == Wr(calloc(m, node), node, "le_data", element)
         IN  IF p_linked_list_is_empty(m1, list) = 1
             THEN [ret |-> 1, m |-> [m1 EXCEPT !.pt_list_head = node, !.pt_list_tail = node]]
             ELSE LET r == CASE add_order = OR_HEAD -> insert_at_head(m1, list, node)
                             [] add_order = OR_TAIL -> insert_at_tail(m1, list, node)
                             [] add_order = OR_ORDER -> insert_in_order(m1, list, node)
                  IN  IF r.ret = 0 /\ ~Fatal(r.m)
                      THEN [ret |-> 0, m |-> free(r.m, node)]
                      ELSE r

\* p_linked_list_remove_element without its test remove_order == OR_ORDER, and
\* with case OR_TAIL turned into the default label of its switch.
remove_element_order_unchecked(m, linked_list, remove_order) ==
    IF linked_list = NULL THEN [ret |-> NULL, m |-> m]
    ELSE IF p_linked_list_is_empty(m, linked_list) = 1 THEN [ret |-> NULL, m |-> m]
    ELSE LET h == Acc(m, m.pt_list_head)
             r == IF Rd(h, h.pt_list_head, "le_next") = NULL
                  THEN [tmp_node |-> h.pt_list_head,
                        m |-> [h EXCEPT !.pt_list_head = NULL, !.pt_list_tail = NULL]]
                  ELSE IF remove_order = OR_HEAD
                  THEN LET tmp_node == h.pt_list_head
                           m1 == [h EXCEPT !.pt_list_head = Rd(h, tmp_node, "le_next")]
                       IN  [tmp_node |-> tmp_node,
                            m |-> Wr(m1, m1.pt_list_head, "le_prev", NULL)]
                  ELSE LET tmp_node == h.pt_list_tail
                           a  == Acc(h, tmp_node)
                           m1 == [a EXCEPT !.pt_list_tail = Rd(a, tmp_node, "le_prev")]
                       IN  [tmp_node |-> tmp_node,
                            m |-> Wr(m1, m1.pt_list_tail, "le_next", NULL)]
             d == Acc(r.m, r.tmp_node)
         IN  [ret |-> Rd(d, r.tmp_node, "le_data"), m |-> free(d, r.tmp_node)]

\* p_linked_list_remove_element without its test p_linked_list_is_empty().
remove_element_empty_unchecked(m, linked_list, remove_order) ==
    IF linked_list = NULL THEN [ret |-> NULL, m |-> m]
    ELSE IF remove_order = OR_ORDER THEN [ret |-> NULL, m |-> m]
    ELSE LET h == Acc(m, m.pt_list_head)
             r == IF Rd(h, h.pt_list_head, "le_next") = NULL
                  THEN [tmp_node |-> h.pt_list_head,
                        m |-> [h EXCEPT !.pt_list_head = NULL, !.pt_list_tail = NULL]]
                  ELSE IF remove_order = OR_HEAD
                  THEN LET tmp_node == h.pt_list_head
                           m1 == [h EXCEPT !.pt_list_head = Rd(h, tmp_node, "le_next")]
                       IN  [tmp_node |-> tmp_node,
                            m |-> Wr(m1, m1.pt_list_head, "le_prev", NULL)]
                  ELSE LET tmp_node == h.pt_list_tail
                           a  == Acc(h, tmp_node)
                           m1 == [a EXCEPT !.pt_list_tail = Rd(a, tmp_node, "le_prev")]
                       IN  [tmp_node |-> tmp_node,
                            m |-> Wr(m1, m1.pt_list_tail, "le_next", NULL)]
             d == Acc(r.m, r.tmp_node)
         IN  [ret |-> Rd(d, r.tmp_node, "le_data"), m |-> free(d, r.tmp_node)]

\* p_linked_list_remove_element with the two case labels of its switch exchanged.
remove_element_cases_swapped(m, linked_list, remove_order) ==
    IF linked_list = NULL THEN [ret |-> NULL, m |-> m]
    ELSE IF p_linked_list_is_empty(m, linked_list) = 1 THEN [ret |-> NULL, m |-> m]
    ELSE IF remove_order = OR_ORDER THEN [ret |-> NULL, m |-> m]
    ELSE LET h == Acc(m, m.pt_list_head)
             r == IF Rd(h, h.pt_list_head, "le_next") = NULL
                  THEN [tmp_node |-> h.pt_list_head,
                        m |-> [h EXCEPT !.pt_list_head = NULL, !.pt_list_tail = NULL]]
                  ELSE IF remove_order = OR_TAIL
                  THEN LET tmp_node == h.pt_list_head
                           m1 == [h EXCEPT !.pt_list_head = Rd(h, tmp_node, "le_next")]
                       IN  [tmp_node |-> tmp_node,
                            m |-> Wr(m1, m1.pt_list_head, "le_prev", NULL)]
                  ELSE LET tmp_node == h.pt_list_tail
                           a  == Acc(h, tmp_node)
                           m1 == [a EXCEPT !.pt_list_tail = Rd(a, tmp_node, "le_prev")]
                       IN  [tmp_node |-> tmp_node,
                            m |-> Wr(m1, m1.pt_list_tail, "le_next", NULL)]
             d == Acc(r.m, r.tmp_node)
         IN  [ret |-> Rd(d, r.tmp_node, "le_data"), m |-> free(d, r.tmp_node)]

p_linked_list_remove_element(m, linked_list, remove_order) ==
    IF linked_list = NULL THEN [ret |-> NULL, m |-> m]
    ELSE IF p_linked_list_is_empty(m, linked_list) = 1 THEN [ret |-> NULL, m |-> m]
    ELSE IF remove_order = OR_ORDER THEN [ret |-> NULL, m |-> m]
    ELSE LET h == Acc(m, m.pt_list_head)
             r == IF Rd(h, h.pt_list_head, "le_next") = NULL
                  THEN [tmp_node |-> h.pt_list_head,
                        m |-> [h EXCEPT !.pt_list_head = NULL, !.pt_list_tail = NULL]]
                  ELSE IF remove_order = OR_HEAD
                  THEN LET tmp_node == h.pt_list_head
                           m1 == [h EXCEPT !.pt_list_head = Rd(h, tmp_node, "le_next")]
                       IN  [tmp_node |-> tmp_node,
                            m |-> Wr(m1, m1.pt_list_head, "le_prev", NULL)]
                  ELSE LET tmp_node == h.pt_list_tail
                           a  == Acc(h, tmp_node)
                           m1 == [a EXCEPT !.pt_list_tail = Rd(a, tmp_node, "le_prev")]
                       IN  [tmp_node |-> tmp_node,
                            m |-> Wr(m1, m1.pt_list_tail, "le_next", NULL)]
             d == Acc(r.m, r.tmp_node)
         IN  [ret |-> Rd(d, r.tmp_node, "le_data"), m |-> free(d, r.tmp_node)]

\* The for loop of p_linked_list_destroy: the arguments of the deallocator calls.
RECURSIVE destroy_loop(_, _, _, _)
destroy_loop(m, element, calls, fuel) ==
    IF element = NULL THEN [calls |-> calls, m |-> m]
    ELSE IF fuel = 0 THEN [calls |-> calls, m |-> [m EXCEPT !.fault = "loop"]]
    ELSE LET a == Acc(m, element)
         IN  destroy_loop(a, Rd(a, element, "le_next"),
                          Append(calls, [kind |-> "node", ref |-> element]), fuel - 1)

p_linked_list_destroy(m, linked_list) ==
    IF linked_list = NULL THEN [calls |-> <<>>, m |-> m, destroyed |-> FALSE]
    ELSE LET d == IF p_linked_list_is_empty(m, linked_list) = 0
                  THEN destroy_loop(m, m.pt_list_head, <<>>, MaxNodes + 1)
                  ELSE [calls |-> <<>>, m |-> m]
         IN  [calls |-> d.calls,
              m |-> [d.m EXCEPT !.pt_list_head = NULL, !.pt_list_tail = NULL,
                                !.pt_cmpfn = FALSE, !.pt_deallocator = FALSE],
              destroyed |-> TRUE]

\* p_linked_list_create without its test deallocator == NULL.
create_deallocator_unchecked(deallocator, comparefn, alloc_ok) ==
    IF ~alloc_ok THEN NULL ELSE LIST

p_linked_list_create(deallocator, comparefn, alloc_ok) ==
    IF ~deallocator THEN NULL
    ELSE IF ~alloc_ok THEN NULL
    ELSE LIST

----------------------------------------------------------------------------
\* The functions of part_001. Its p_linked_list_is_empty is the text of the
\* one above, and its p_linked_list_destroy differs from the one above only in
\* not clearing the fields of the list before the list is freed.

part_001_create(deallocator, comparefn, alloc_ok) ==
    IF ~deallocator THEN NULL
    ELSE IF ~alloc_ok THEN NULL
    ELSE LIST

part_001_insert_at_head(m, list, node) ==
    IF list = NULL \/ node = NULL \/ p_linked_list_is_empty(m, list) = 1
    THEN [m EXCEPT !.fault = "abort"]
    ELSE LET m1 == Wr(m, node, "le_next", m.pt_list_head)
             m2 == Wr(m1, m1.pt_list_head, "le_prev", node)
         IN  [m2 EXCEPT !.pt_list_head = node]

part_001_insert_at_tail(m, list, node) ==
    IF list = NULL \/ node = NULL \/ p_linked_list_is_empty(m, list) = 1
    THEN [m EXCEPT !.fault = "abort"]
    ELSE LET m1 == Wr(m, node, "le_prev", m.pt_list_tail)
             m2 == Wr(m1, m1.pt_list_tail, "le_next", node)
         IN  [m2 EXCEPT !.pt_list_tail = node]

\* The switch has no case OR_ORDER and no default: with OR_ORDER on a list
\* that is not empty the node is linked nowhere, and 1 is returned.
part_001_add_element(m, list, node, element, add_order) ==
    IF list = NULL THEN [ret |-> 0, m |-> m]
    ELSE IF node = NULL THEN [ret |-> 0, m |-> m]
    ELSE LET m1 == Wr(calloc(m, node), node, "le_data", element)
         IN  IF p_linked_list_is_empty(m1, list) = 1
             THEN [ret |-> 1, m |-> [m1 EXCEPT !.pt_list_head = node, !.pt_list_tail = node]]
             ELSE [ret |-> 1,
                   m |-> CASE add_order = OR_HEAD -> part_001_insert_at_head(m1, list, node)
                           [] add_order = OR_TAIL -> part_001_insert_at_tail(m1, list, node)
                           [] add_order = OR_ORDER -> m1]

\* The switch has no case OR_ORDER and no default: with OR_ORDER on a list of
\* two or more nodes tmp_node is still NULL when tmp_node->le_data is read.
part_001_remove_element(m, linked_list, remove_order) ==
    IF linked_list = NULL THEN [ret |-> NULL, m |-> m]
    ELSE IF p_linked_list_is_empty(m, linked_list) = 1 THEN [ret |-> NULL, m |-> m]
    ELSE LET h == Acc(m, m.pt_list_head)
             r == IF Rd(h, h.pt_list_head, "le_next") = NULL
                  THEN [tmp_node |-> h.pt_list_head,
                        m |-> [h EXCEPT !.pt_list_head = NULL, !.pt_list_tail = NULL]]
                  ELSE IF remove_order = OR_HEAD
                  THEN LET tmp_node == h.pt_list_head
                           m1 == [h EXCEPT !.pt_list_head = Rd(h, tmp_node, "le_next")]
                       IN  [tmp_node |-> tmp_node,
                            m |-> Wr(m1, m1.pt_list_head, "le_prev", NULL)]
                  ELSE IF remove_order = OR_TAIL
                  THEN LET tmp_node == h.pt_list_tail
                           a  == Acc(h, tmp_node)
                           m1 == [a EXCEPT !.pt_list_tail = Rd(a, tmp_node, "le_prev")]
                       IN  [tmp_node |-> tmp_node,
                            m |-> Wr(m1, m1.pt_list_tail, "le_next", NULL)]
                  ELSE [tmp_node |-> NULL, m |-> h]
             d == Acc(r.m, r.tmp_node)
         IN  [ret |-> Rd(d, r.tmp_node, "le_data"), m |-> free(d, r.tmp_node)]

----------------------------------------------------------------------------
\* The program's state as a machine record, and back.

M == [pt_list_head |-> pt_list_head, pt_list_tail |-> pt_list_tail,
      pt_cmpfn |-> pt_cmpfn, pt_deallocator |-> pt_deallocator,
      heap |-> heap, allocated |-> allocated, used |-> used, fault |-> "none"]

Commit(m) ==
    LET n == Normalize(m)
    IN  /\ Len(Layout(m).all) <= MaxNodes
        /\ pt_list_head' = n.pt_list_head
        /\ pt_list_tail' = n.pt_list_tail
        /\ pt_cmpfn' = n.pt_cmpfn
        /\ pt_deallocator' = n.pt_deallocator
        /\ heap' = n.heap
        /\ allocated' = n.allocated
        /\ used' = n.used

\* How a call that met fault m.fault ends. A NULL dereference kills the
\* process and an endless loop hangs it. An access to freed storage is
\* undefined: the process dies (go_on = FALSE) or goes on with what the
\* freed storage still holds (go_on = TRUE); a run is followed through at
\* most MaxUb such calls, after which the next one ends it.
Ends(m, go_on) ==
    /\ m.fault = "none" => go_on
    /\ Fatal(m) => ~go_on
    /\ (m.fault = "uaf" /\ ub >= MaxUb) => ~go_on

Halt(m) ==
    /\ status' = (IF m.fault = "loop" THEN "hung" ELSE "crashed")
    /\ UNCHANGED <<list_state, pt_list_head, pt_list_tail, pt_cmpfn, pt_deallocator,
                   heap, allocated, used, run, nadd, held, dealloc_calls, ret, ub>>

\* A handle the caller may pass: NULL at any time, the list while it is live.
Handles == IF list_state = "live" THEN {NULL, LIST} ELSE {NULL}

\* The head-to-tail traversal: the nodes met from n on following le_next.
RECURSIVE Chain(_, _, _)
Chain(hp, n, fuel) ==
    IF n = NULL \/ fuel = 0 THEN <<>> ELSE <<n>> \o Chain(hp, hp[n].le_next, fuel - 1)

Traversal == Chain(heap, pt_list_head, MaxNodes + 1)

\* The elements of the traversal.
Elements == [i \in 1..Len(Traversal) |-> heap[Traversal[i]].le_data]

----------------------------------------------------------------------------
\* The call pattern since the last add on an empty list, kept while it is
\* pure: all adds with one selector, then all removes with one selector.

NoRun == [pure |-> TRUE, add_orders |-> {}, adds |-> <<>>, rem_orders |-> {}, rems |-> <<>>]
Mixed == [pure |-> FALSE, add_orders |-> {}, adds |-> <<>>, rem_orders |-> {}, rems |-> <<>>]

RunAdd(r, was_empty, add_order, element) ==
    IF was_empty
    THEN [NoRun EXCEPT !.add_orders = {add_order}, !.adds = <<element>>]
    ELSE IF r.pure /\ r.rems = <<>> /\ r.add_orders = {add_order}
    THEN [r EXCEPT !.adds = Append(@, element)]
    ELSE Mixed

RunRemove(r, remove_order, element) ==
    IF r.pure /\ r.rem_orders \subseteq {remove_order}
    THEN [r EXCEPT !.rem_orders = {remove_order}, !.rems = Append(@, element)]
    ELSE Mixed

----------------------------------------------------------------------------
\* Actions: one per exported function.

Create(deallocator, comparefn, alloc_ok) ==
    /\ status = "running"
    /\ list_state = "absent"
    /\ LET l == p_linked_list_create(deallocator, comparefn, alloc_ok)
       IN  /\ ret' = [op |-> "create", val |-> l]
           /\ IF l = NULL
              THEN UNCHANGED <<list_state, pt_cmpfn, pt_deallocator>>
              ELSE /\ list_state' = "live"
                   /\ pt_cmpfn' = comparefn
                   /\ pt_deallocator' = deallocator
    /\ pt_list_head' = NULL
    /\ pt_list_tail' = NULL
    /\ UNCHANGED <<heap, allocated, used, run, nadd, held, dealloc_calls, status, ub>>

AddElement(list, node, element, add_order, go_on, bound) ==
    /\ status = "running"
    /\ nadd < bound
    /\ LET r == p_linked_list_add_element(M, list, node, element, add_order)
           was_empty == p_linked_list_is_empty(M, list) = 1
       IN  /\ Ends(r.m, go_on)
           /\ IF go_on
              THEN /\ Commit(r.m)
                   /\ ub' = (IF r.m.fault = "uaf" THEN ub + 1 ELSE ub)
                   /\ ret' = IF list = NULL \/ node = NULL \/ was_empty
                             THEN [op |-> "add", list |-> list, val |-> r.ret]
                             ELSE [op |-> "add", list |-> list, order |-> add_order,
                                   val |-> r.ret]
                   /\ nadd' = nadd + r.ret
                   /\ held' = held + r.ret
                   /\ run' = IF r.ret = 0 THEN run
                             ELSE RunAdd(run, was_empty, add_order, element)
                   /\ UNCHANGED <<list_state, dealloc_calls, status>>
              ELSE Halt(r.m)

\* held is kept from falling below 0: a run in which more removes than adds
\* succeeded (freed nodes removed again) is followed no further.
RemoveElement(linked_list, remove_order, go_on) ==
    /\ status = "running"
    /\ LET r == p_linked_list_remove_element(M, linked_list, remove_order)
       IN  /\ r.ret # NULL => held > 0
           /\ Ends(r.m, go_on)
           /\ IF go_on
              THEN /\ Commit(r.m)
                   /\ ub' = (IF r.m.fault = "uaf" THEN ub + 1 ELSE ub)
                   /\ ret' = IF p_linked_list_is_empty(M, linked_list) = 1
                             THEN [op |-> "remove", list |-> linked_list, val |-> r.ret]
                             ELSE [op |-> "remove", list |-> linked_list,
                                   order |-> remove_order, val |-> r.ret]
                   /\ held' = IF r.ret = NULL THEN held ELSE held - 1
                   /\ run' = IF r.ret = NULL THEN run
                             ELSE RunRemove(run, remove_order, r.ret)
                   /\ UNCHANGED <<list_state, nadd, dealloc_calls, status>>
              ELSE Halt(r.m)

IsEmpty(linked_list) ==
    /\ status = "running"
    /\ ret' = [op |-> "is_empty", list |-> linked_list,
               val |-> p_linked_list_is_empty(M, linked_list)]
    /\ UNCHANGED <<list_state, pt_list_head, pt_list_tail, pt_cmpfn, pt_deallocator,
                   heap, allocated, used, run, nadd, held, dealloc_calls, status, ub>>

Destroy(linked_list, go_on) ==
    /\ status = "running"
    /\ LET r == p_linked_list_destroy(M, linked_list)
       IN  /\ Ends(r.m, go_on)
           /\ IF go_on
              THEN /\ IF r.destroyed
                      THEN Commit(r.m) /\ list_state' = "destroyed"
                      ELSE UNCHANGED <<list_state, pt_list_head, pt_list_tail, pt_cmpfn,
                                       pt_deallocator, heap, allocated, used>>
                   /\ ub' = (IF r.m.fault = "uaf" THEN ub + 1 ELSE ub)
                   /\ dealloc_calls' = dealloc_calls \o r.calls
                   /\ ret' = [op |-> "destroy", list |-> linked_list]
                   /\ UNCHANGED <<run, nadd, held, status>>
              ELSE Halt(r.m)

----------------------------------------------------------------------------
\* Specifications.

Init ==
    /\ list_state = "absent"
    /\ pt_list_head = NULL
    /\ pt_list_tail = NULL
    /\ pt_cmpfn = FALSE
    /\ pt_deallocator = FALSE
    /\ heap = [n \in NodeIds |-> linked_list_node_t(NULL, NULL, NULL)]
    /\ allocated = {}
    /\ used = {}
    /\ run = NoRun
    /\ nadd = 0
    /\ held = 0
    /\ dealloc_calls = <<>>
    /\ ret = [op |-> "none"]
    /\ status = "running"
    /\ ub = 0

CreateStep == \E d \in BOOLEAN, c \in BOOLEAN, ok \in BOOLEAN : Create(d, c, ok)

AddStep ==
    \E list \in Handles, node \in AllocChoices(allocated, used) \cup {NULL},
       element \in Elems, add_order \in Orders, go_on \in BOOLEAN :
        AddElement(list, node, element, add_order, go_on, MaxAdds)

RemoveStep ==
    \E list \in Handles, remove_order \in Orders, go_on \in BOOLEAN :
        RemoveElement(list, remove_order, go_on)

IsEmptyStep == \E list \in Handles : IsEmpty(list)

DestroyStep == \E list \in Handles, go_on \in BOOLEAN : Destroy(list, go_on)

Next == CreateStep \/ AddStep \/ RemoveStep \/ IsEmptyStep \/ DestroyStep

Spec == Init /\ [][Next]_vars

\* Ordered insertion alone: every add_element call asks for OR_ORDER, and
\* nothing is removed.
AddOrderStep ==
    \E node \in AllocChoices(allocated, used) \cup {NULL},
       element \in Elems, go_on \in BOOLEAN :
        /\ list_state = "live"
        /\ AddElement(LIST, node, element, OR_ORDER, go_on, MaxOrderAdds)

NextOrder == CreateStep \/ AddOrderStep \/ IsEmptyStep \/ DestroyStep

SpecOrder == Init /\ [][NextOrder]_vars

----------------------------------------------------------------------------
\* The list of part_001: the same caller, calling the functions of part_001.

Create001(deallocator, comparefn, alloc_ok) ==
    /\ status = "running"
    /\ list_state = "absent"
    /\ LET l == part_001_create(deallocator, comparefn, alloc_ok)
       IN  /\ ret' = [op |-> "create", val |-> l]
           /\ IF l = NULL
              THEN UNCHANGED <<list_state, pt_deallocator>>
              ELSE /\ list_state' = "live"
                   /\ pt_deallocator' = deallocator
    /\ pt_list_head' = NULL
    /\ pt_list_tail' = NULL
    /\ UNCHANGED <<pt_cmpfn, heap, allocated, used, run, nadd, held, dealloc_calls,
                   status, ub>>

AddElement001(list, node, element, add_order, go_on) ==
    /\ status = "running"
    /\ nadd < MaxAdds
    /\ LET r == part_001_add_element(M, list, node, element, add_order)
           was_empty == p_linked_list_is_empty(M, list) = 1
       IN  /\ Ends(r.m, go_on)
           /\ IF go_on
              THEN /\ Commit(r.m)
                   /\ ub' = (IF r.m.fault = "uaf" THEN ub + 1 ELSE ub)
                   /\ ret' = IF list = NULL \/ node = NULL \/ was_empty
                             THEN [op |-> "add", list |-> list, val |-> r.ret]
                             ELSE [op |-> "add", list |-> list, order |-> add_order,
                                   val |-> r.ret]
                   /\ nadd' = nadd + r.ret
                   /\ held' = held + r.ret
                   /\ run' = IF r.ret = 0 THEN run
                             ELSE RunAdd(run, was_empty, add_order, element)
                   /\ UNCHANGED <<list_state, dealloc_calls, status>>
              ELSE Halt(r.m)

RemoveElement001(linked_list, remove_order, go_on) ==
    /\ status = "running"
    /\ LET r == part_001_remove_element(M, linked_list, remove_order)
       IN  /\ r.ret # NULL => held > 0
           /\ Ends(r.m, go_on)
           /\ IF go_on
              THEN /\ Commit(r.m)
                   /\ ub' = (IF r.m.fault = "uaf" THEN ub + 1 ELSE ub)
                   /\ ret' = IF p_linked_list_is_empty(M, linked_list) = 1
                             THEN [op |-> "remove", list |-> linked_list, val |-> r.ret]
                             ELSE [op |-> "remove", list |-> linked_list,
                                   order |-> remove_order, val |-> r.ret]
                   /\ held' = IF r.ret = NULL THEN held ELSE held - 1
                   /\ run' = IF r.ret = NULL THEN run
                             ELSE RunRemove(run, remove_order, r.ret)
                   /\ UNCHANGED <<list_state, nadd, dealloc_calls, status>>
              ELSE Halt(r.m)

Create001Step == \E d \in BOOLEAN, c \in BOOLEAN, ok \in BOOLEAN : Create001(d, c, ok)

Add001Step ==
    \E list \in Handles, node \in AllocChoices(allocated, used) \cup {NULL},
       element \in Elems, add_order \in Orders, go_on \in BOOLEAN :
        AddElement001(list, node, element, add_order, go_on)

Remove001Step ==
    \E list \in Handles, remove_order \in Orders, go_on \in BOOLEAN :
        RemoveElement001(list, remove_order, go_on)

Next001 == Create001Step \/ Add001Step \/ Remove001Step \/ IsEmptyStep \/ DestroyStep

Spec001 == Init /\ [][Next001]_vars

----------------------------------------------------------------------------
\* Helpers of the properties.

Reverse(q) == [i \in 1..Len(q) |-> q[Len(q) + 1 - i]]

Count(q, x) == Cardinality({i \in 1..Len(q) : q[i] = x})

\* q is in non-decreasing comparator order.
Ascending(q) == \A i \in 1..Len(q), j \in 1..Len(q) : i < j => cmpfn(q[i], q[j]) <= 0

\* q is the first Len(q) entries of w.
IsPrefix(q, w) == Len(q) <= Len(w) /\ \A i \in 1..Len(q) : q[i] = w[i]

\* Since the list was last empty: adds with selector a only, then removes
\* with selector b only (none yet, perhaps).
Pattern(a, b) ==
    /\ run.pure
    /\ run.add_orders = {a}
    /\ run.rem_orders \subseteq {b}

\* The pattern is complete: as many removes as adds, N of each.
Complete(N) == Len(run.adds) = N /\ Len(run.rems) = N

Position(q, x) == CHOOSE i \in 1..Len(q) : q[i] = x

----------------------------------------------------------------------------
\* C1: on a list created with an ascending comparator, after any sequence of
\* successful add_element(OR_ORDER) calls starting from the empty list, the
\* head-to-tail traversal holds every inserted element exactly once and is in
\* non-decreasing comparator order.
C1_OrderedTraversal ==
    (list_state = "live" /\ pt_cmpfn /\ Pattern(OR_ORDER, OR_HEAD) /\ run.rems = <<>>)
        => /\ Ascending(Elements)
           /\ Len(Elements) = Len(run.adds)
           /\ \A e \in Elems : Count(Elements, e) = Count(run.adds, e)

\* C2: ordered insertion is stable. Whenever add_element(OR_ORDER) succeeds on
\* a list built by ordered insertion, every element already in the traversal
\* that ties with the new one is still in the traversal and comes before it,
\* and the new element sits right before the first strictly greater element,
\* or at the tail when there is none.
C2_StableInsertion ==
    (list_state = "live" /\ pt_cmpfn /\ pt_list_head # NULL /\ status = "running"
     /\ Pattern(OR_ORDER, OR_HEAD) /\ run.rems = <<>>)
        => \A e \in Elems, node \in AllocChoices(allocated, used) :
              LET r == p_linked_list_add_element(M, LIST, node, e, OR_ORDER)
                  old == Traversal
                  new == Chain(r.m.heap, r.m.pt_list_head, MaxNodes + 1)
                  greater == {i \in 1..Len(old) : cmpfn(e, heap[old[i]].le_data) < 0}
              IN  r.ret = 1 =>
                    /\ Count(new, node) = 1
                    /\ \A i \in 1..Len(old) :
                          cmpfn(e, heap[old[i]].le_data) = 0
                              => /\ Count(new, old[i]) = 1
                                 /\ Position(new, old[i]) < Position(new, node)
                    /\ IF greater = {}
                       THEN new[Len(new)] = node
                       ELSE LET first == CHOOSE i \in greater : \A k \in greater : i <= k
                            IN  /\ Position(new, node) < Len(new)
                                /\ new[Position(new, node) + 1] = old[first]

\* C3: N add_element(OR_HEAD) calls on an empty list followed by N
\* remove_element(OR_HEAD) calls return the elements in the reverse of their
\* insertion order, and the list is empty afterwards.
C3_HeadHeadLIFO ==
    Pattern(OR_HEAD, OR_HEAD)
        => /\ IsPrefix(run.rems, Reverse(run.adds))
           /\ (list_state = "live" /\ Len(run.rems) = Len(run.adds))
                  => p_linked_list_is_empty(M, LIST) = 1

C3_Witness ==
    /\ Pattern(OR_HEAD, OR_HEAD)
    /\ Complete(MaxAdds)
    /\ run.adds[1] # run.adds[MaxAdds]
    /\ ret.op = "remove"

\* C4, as claimed: N add_element(OR_TAIL) calls on an empty list followed by N
\* remove_element(OR_TAIL) calls return the elements in the order in which
\* they were inserted.
C4_TailTailFIFO ==
    Pattern(OR_TAIL, OR_TAIL) => IsPrefix(run.rems, run.adds)

\* C4, amended: N add_element(OR_TAIL) calls on an empty list followed by N
\* remove_element(OR_TAIL) calls return the elements in the reverse of the
\* order in which they were inserted; the two orders agree only when the
\* inserted sequence reads the same in both directions.
C4_TailTailReversed ==
    (Pattern(OR_TAIL, OR_TAIL) /\ Len(run.rems) = Len(run.adds))
        => /\ run.rems = Reverse(run.adds)
           /\ (run.rems = run.adds) <=> (run.adds = Reverse(run.adds))

C4_Witness ==
    /\ Pattern(OR_TAIL, OR_TAIL)
    /\ Complete(MaxAdds)
    /\ run.adds # Reverse(run.adds)
    /\ ret.op = "remove"

\* C5: N add_element(OR_TAIL) calls on an empty list followed by
\* remove_element(OR_TAIL) calls: the most recently inserted element is
\* removed first, each call returning the newest element still held.
C5_TailTailLIFO ==
    Pattern(OR_TAIL, OR_TAIL)
        => /\ Len(run.rems) <= Len(run.adds)
           /\ \A i \in 1..Len(run.rems) : run.rems[i] = run.adds[Len(run.adds) + 1 - i]

C5_Witness ==
    /\ Pattern(OR_TAIL, OR_TAIL)
    /\ Len(run.adds) = MaxAdds
    /\ Len(run.rems) = 1
    /\ run.adds[1] # run.adds[MaxAdds]
    /\ ret.op = "remove"

\* C6: N add_element(OR_HEAD) calls followed by N remove_element(OR_TAIL)
\* calls, and N add_element(OR_TAIL) calls followed by N
\* remove_element(OR_HEAD) calls, on an empty list, return the elements in
\* insertion order.
C6_CrossFIFO ==
    (Pattern(OR_HEAD, OR_TAIL) \/ Pattern(OR_TAIL, OR_HEAD))
        => IsPrefix(run.rems, run.adds)

C6_Witness ==
    /\ Pattern(OR_HEAD, OR_TAIL)
    /\ Complete(MaxAdds)
    /\ run.adds # Reverse(run.adds)
    /\ ret.op = "remove"

\* C7: is_empty returns true for an absent list and for a freshly created
\* list, false right after an add_element call that reported success, and
\* true again once as many remove_element calls as add_element calls succeeded.
C7_IsEmptyResults ==
    /\ p_linked_list_is_empty(M, NULL) = 1
    /\ (list_state = "live" /\ nadd = 0) => p_linked_list_is_empty(M, LIST) = 1
    /\ (list_state = "live" /\ status = "running" /\ ret.op = "add" /\ ret.val = 1)
           => p_linked_list_is_empty(M, LIST) = 0
    /\ (list_state = "live" /\ held = 0) => p_linked_list_is_empty(M, LIST) = 1
    /\ (ret.op = "is_empty" /\ ret.list = NULL) => ret.val = 1
    /\ (ret.op = "is_empty" /\ ret.list = LIST /\ held = 0) => ret.val = 1

\* C8: destroying a list that holds K elements (the add_element calls that
\* succeeded minus the remove_element calls that succeeded) calls the
\* deallocator exactly K times.
C8_DeallocatorCalls ==
    list_state = "destroyed" => Len(dealloc_calls) = held

\* C9: every argument the deallocator is called with during destroy is an
\* element reference the caller gave to add_element, never a node of the list.
C9_DeallocatorGetsElements ==
    \A i \in 1..Len(dealloc_calls) :
        dealloc_calls[i].kind = "element" /\ dealloc_calls[i].ref \in Elems

\* C10: the list frees every node it allocates: after destroy no node that
\* add_element allocated is still allocated, and no node that the list can
\* still reach has been freed.
C10_NodesFreedByList ==
    /\ list_state = "destroyed" => allocated = {}
    /\ LET reach == Layout(M).reach
       IN  \A i \in 1..Len(reach) : reach[i] \in allocated

----------------------------------------------------------------------------
\* What a call leaves of the list: the state it commits, node for node.
Same(m) ==
    LET n == Normalize(m)
    IN  /\ m.fault = "none"
        /\ n.pt_list_head = pt_list_head
        /\ n.pt_list_tail = pt_list_tail
        /\ n.heap = heap
        /\ n.allocated = allocated
        /\ n.pt_cmpfn = pt_cmpfn
        /\ n.pt_deallocator = pt_deallocator

\* The last call was add_element on the live list, which was not empty, with
\* selector o, and it got its node.
AddedWith(o) ==
    /\ ret.op = "add"
    /\ ret.list = LIST
    /\ "order" \in DOMAIN ret
    /\ ret.order = o

\* C11, as claimed: add_element(OR_ORDER) on a list created without a
\* comparator returns failure and leaves the list unmodified, with the node
\* it allocated freed again, in every list state, the empty list included.
C11_OrderNeedsComparator ==
    (list_state = "live" /\ ~pt_cmpfn /\ status = "running")
        => \A node \in AllocChoices(allocated, used), e \in Elems :
              LET r == p_linked_list_add_element(M, LIST, node, e, OR_ORDER)
              IN  r.ret = 0 /\ Same(r.m)

\* C11, amended: add_element(OR_ORDER) on a list created without a comparator
\* that holds at least one element returns failure and leaves the list
\* unmodified, with the node it allocated freed again; on an empty list the
\* call succeeds and the new node becomes head and tail.
C11_OrderNeedsComparatorNonEmpty ==
    (list_state = "live" /\ ~pt_cmpfn /\ status = "running")
        => \A node \in AllocChoices(allocated, used), e \in Elems :
              LET r == p_linked_list_add_element(M, LIST, node, e, OR_ORDER)
              IN  IF pt_list_head # NULL
                  THEN r.ret = 0 /\ Same(r.m) /\ node \notin r.m.allocated
                  ELSE /\ r.ret = 1
                       /\ r.m.fault = "none"
                       /\ r.m.pt_list_head = node
                       /\ r.m.pt_list_tail = node
                       /\ r.m.heap[node] = linked_list_node_t(e, NULL, NULL)

C11_Witness ==
    /\ list_state = "live"
    /\ ~pt_cmpfn
    /\ AddedWith(OR_ORDER)
    /\ ret.val = 0
    /\ Len(Traversal) = 2

\* The last call was remove_element on the live list, which was not empty,
\* with selector o.
RemovedWith(o) ==
    /\ ret.op = "remove"
    /\ ret.list = LIST
    /\ "order" \in DOMAIN ret
    /\ ret.order = o

\* C12: remove_element with selector OR_ORDER returns NULL and leaves the
\* list exactly as it was, whether the list is absent, empty, holds one node
\* or holds more than one.
C12_RemoveOrderFails ==
    status = "running"
        => \A l \in Handles :
              LET r == p_linked_list_remove_element(M, l, OR_ORDER)
              IN  r.ret = NULL /\ r.m = M

C12_Witness ==
    /\ list_state = "live"
    /\ RemovedWith(OR_ORDER)
    /\ ret.val = NULL
    /\ Len(Traversal) = MaxAdds
    /\ held = MaxAdds

\* C13: remove_element with OR_HEAD or OR_TAIL on an absent list or on an
\* empty list returns NULL and changes nothing, and the empty list is as
\* usable as a fresh one afterwards: an add_element call on it succeeds and
\* the remove_element call that follows returns the element just added and
\* leaves the list empty, the node freed.
C13_RemoveFromEmpty ==
    status = "running"
        => \A l \in Handles, o \in {OR_HEAD, OR_TAIL} :
              p_linked_list_is_empty(M, l) = 1
                  => LET r == p_linked_list_remove_element(M, l, o)
                     IN  /\ r.ret = NULL
                         /\ r.m = M
                         /\ l = LIST =>
                              \A node \in AllocChoices(allocated, used), e \in Elems,
                                 o1 \in {OR_HEAD, OR_TAIL}, o2 \in {OR_HEAD, OR_TAIL} :
                                  LET a == p_linked_list_add_element(r.m, l, node, e, o1)
                                      b == p_linked_list_remove_element(a.m, l, o2)
                                  IN  /\ a.ret = 1
                                      /\ p_linked_list_is_empty(a.m, l) = 0
                                      /\ b.ret = e
                                      /\ p_linked_list_is_empty(b.m, l) = 1
                                      /\ b.m.pt_list_tail = NULL
                                      /\ b.m.allocated = allocated
                                      /\ b.m.fault = "none"

C13_Witness ==
    /\ list_state = "live"
    /\ ret = [op |-> "remove", list |-> LIST, val |-> NULL]
    /\ pt_list_head = NULL
    /\ nadd > 0
    /\ held = 0

\* C14: when calloc returns NULL inside add_element, whatever the selector
\* and whatever the list holds, add_element returns 0 and the list is exactly
\* as before the call: same head, tail, links and elements.
C14_AllocationFailure ==
    (list_state = "live" /\ status = "running")
        => \A e \in Elems, o \in Orders :
              LET r == p_linked_list_add_element(M, LIST, NULL, e, o)
              IN  r.ret = 0 /\ r.m = M

C14_Witness ==
    /\ list_state = "live"
    /\ ret = [op |-> "add", list |-> LIST, val |-> 0]
    /\ Len(Traversal) = 2
    /\ held = 2

\* C15: create returns NULL whenever no deallocator is given, with or without
\* a comparator; with a deallocator, and its allocation succeeding, it returns
\* a new list that is empty, head and tail both NULL, with or without a
\* comparator.
C15_Create ==
    [][\A d \in BOOLEAN, c \in BOOLEAN, ok \in BOOLEAN :
          Create(d, c, ok)
              => IF ~d
                 THEN ret'.val = NULL /\ list_state' = "absent"
                 ELSE IF ok
                 THEN /\ ret'.val = LIST
                      /\ list_state' = "live"
                      /\ pt_list_head' = NULL
                      /\ pt_list_tail' = NULL
                      /\ pt_cmpfn' = c
                      /\ pt_deallocator'
                      /\ allocated' = {}
                 ELSE ret'.val = NULL /\ list_state' = "absent"]_vars

C15_Witness ==
    /\ ret = [op |-> "create", val |-> LIST]
    /\ list_state = "live"
    /\ ~pt_cmpfn
    /\ pt_deallocator
    /\ p_linked_list_is_empty(M, LIST) = 1

\* C16: no call dereferences a NULL node pointer: in every reachable state,
\* with every selector, add_element and remove_element return without
\* reading or writing through a NULL node pointer; remove_element(OR_ORDER)
\* on a list of two or more nodes returns.
C16_NoNullDereference ==
    status = "running"
        => \A l \in Handles, o \in Orders :
              /\ part_001_remove_element(M, l, o).m.fault # "null"
              /\ \A node \in AllocChoices(allocated, used) \cup {NULL}, e \in Elems :
                    part_001_add_element(M, l, node, e, o).m.fault # "null"

\* C17: after any sequence of create, add_element and remove_element calls,
\* whenever the list holds more than one node, the le_prev of the head and
\* the le_next of the tail are NULL, every node n reachable from the head
\* that has a next has n.le_next.le_prev = n, and every such node that has a
\* prev has n.le_prev.le_next = n.
C17_ChainConsistent ==
    (list_state = "live" /\ ub = 0 /\ Len(Traversal) > 1)
        => /\ heap[pt_list_head].le_prev = NULL
           /\ heap[pt_list_tail].le_next = NULL
           /\ \A i \in 1..Len(Traversal) :
                 LET n == Traversal[i]
                 IN  /\ heap[n].le_next # NULL => heap[heap[n].le_next].le_prev = n
                     /\ heap[n].le_prev # NULL => heap[heap[n].le_prev].le_next = n

\* C18: the list never holds a dangling reference: in every reachable state
\* the head, the tail and the le_next and le_prev of every node reachable
\* from them are NULL or a node that is allocated, and no add_element or
\* remove_element call reads or writes a node that was freed.
C18_NoDanglingReference ==
    LET reach == Layout(M).reach
        live == allocated \cup {NULL}
    IN  /\ pt_list_head \in live
        /\ pt_list_tail \in live
        /\ \A i \in 1..Len(reach) :
              heap[reach[i]].le_next \in live /\ heap[reach[i]].le_prev \in live
        /\ ub = 0
        /\ status = "running"
              => \A l \in Handles, o \in Orders :
                    /\ p_linked_list_remove_element(M, l, o).m.fault # "uaf"
                    /\ \A node \in AllocChoices(allocated, used), e \in Elems :
                          p_linked_list_add_element(M, l, node, e, o).m.fault # "uaf"

\* C19: in every reachable state the head is NULL iff the tail is NULL, and
\* both are NULL, is_empty returning 1, exactly when as many remove_element
\* calls as add_element calls have succeeded.
C19_EmptyIffNothingHeld ==
    (list_state = "live" /\ ub = 0)
        => /\ pt_list_head = NULL <=> pt_list_tail = NULL
           /\ p_linked_list_is_empty(M, LIST) = 1 <=> held = 0

\* The elements met from the head of m on.
ElementsOf(m) ==
    LET c == Chain(m.heap, m.pt_list_head, MaxNodes + 1)
    IN  [i \in 1..Len(c) |-> m.heap[c[i]].le_data]

\* C20: a remove_element call that succeeds removes one element and nothing
\* else: on a list whose traversal is e1..en, n >= 2, however it was built,
\* remove_element(OR_HEAD) returns e1 and leaves e2..en, and
\* remove_element(OR_TAIL) returns en and leaves e1..e(n-1); the deallocator
\* is not called.
C20_RemoveExactlyOne ==
    (list_state = "live" /\ status = "running" /\ ub = 0 /\ Len(Traversal) >= 2)
        => LET n == Len(Elements)
               h == p_linked_list_remove_element(M, LIST, OR_HEAD)
               t == p_linked_list_remove_element(M, LIST, OR_TAIL)
           IN  /\ h.ret = Elements[1]
               /\ ElementsOf(h.m) = SubSeq(Elements, 2, n)
               /\ t.ret = Elements[n]
               /\ ElementsOf(t.m) = SubSeq(Elements, 1, n - 1)
               /\ dealloc_calls = <<>>

\* C21: on a list that is not empty, with traversal S, an add_element(e,
\* OR_HEAD) call that succeeds makes the traversal e followed by S: the new
\* node is the head, its le_next is the old head and the le_prev of the old
\* head is the new node. An add_element(e, OR_TAIL) call that succeeds makes
\* the traversal S followed by e: the new node is the tail, its le_prev is the
\* old tail and the le_next of the old tail is the new node. No other link,
\* and no element, changes.
C21_HeadTailSplice ==
    (list_state = "live" /\ status = "running" /\ pt_list_head # NULL)
        => \A node \in AllocChoices(allocated, used), e \in Elems :
              LET h == p_linked_list_add_element(M, LIST, node, e, OR_HEAD)
                  t == p_linked_list_add_element(M, LIST, node, e, OR_TAIL)
              IN  /\ h.ret = 1 =>
                        /\ ElementsOf(h.m) = <<e>> \o Elements
                        /\ Chain(h.m.heap, h.m.pt_list_head, MaxNodes + 1)
                               = <<node>> \o Traversal
                        /\ h.m.pt_list_head = node
                        /\ h.m.pt_list_tail = pt_list_tail
                        /\ h.m.heap[node] = linked_list_node_t(e, pt_list_head, NULL)
                        /\ h.m.heap[pt_list_head]
                               = [heap[pt_list_head] EXCEPT !.le_prev = node]
                        /\ \A k \in NodeIds \ {node, pt_list_head} :
                               h.m.heap[k] = heap[k]
                  /\ t.ret = 1 =>
                        /\ ElementsOf(t.m) = Elements \o <<e>>
                        /\ Chain(t.m.heap, t.m.pt_list_head, MaxNodes + 1)
                               = Traversal \o <<node>>
                        /\ t.m.pt_list_tail = node
                        /\ t.m.pt_list_head = pt_list_head
                        /\ t.m.heap[node] = linked_list_node_t(e, NULL, pt_list_tail)
                        /\ t.m.heap[pt_list_tail]
                               = [heap[pt_list_tail] EXCEPT !.le_next = node]
                        /\ \A k \in NodeIds \ {node, pt_list_tail} :
                               t.m.heap[k] = heap[k]

\* C22: on an empty list add_element succeeds with every selector, OR_ORDER
\* included, with or without a comparator: the new node becomes head and
\* tail, its le_prev and le_next are NULL, nothing else changes, and the
\* outcome does not depend on the comparator.
C22_AddOnEmpty ==
    (list_state = "live" /\ status = "running" /\ p_linked_list_is_empty(M, LIST) = 1)
        => \A node \in AllocChoices(allocated, used), e \in Elems, o \in Orders :
              LET r == p_linked_list_add_element(M, LIST, node, e, o)
                  other == p_linked_list_add_element([M EXCEPT !.pt_cmpfn = ~pt_cmpfn],
                                                     LIST, node, e, o)
              IN  /\ r.ret = 1
                  /\ r.m.fault = "none"
                  /\ r.m.pt_list_head = node
                  /\ r.m.pt_list_tail = node
                  /\ r.m.heap[node] = linked_list_node_t(e, NULL, NULL)
                  /\ \A k \in NodeIds \ {node} : r.m.heap[k] = heap[k]
                  /\ r.m.allocated = allocated \cup {node}
                  /\ r.m.pt_cmpfn = pt_cmpfn
                  /\ other.ret = r.ret
                  /\ other.m = [r.m EXCEPT !.pt_cmpfn = ~pt_cmpfn]

C22_Witness ==
    /\ list_state = "live"
    /\ ~pt_cmpfn
    /\ ret = [op |-> "add", list |-> LIST, val |-> 1]
    /\ run.add_orders = {OR_ORDER}
    /\ Len(run.adds) = 1
    /\ pt_list_head # NULL
    /\ pt_list_head = pt_list_tail
    /\ nadd > 1

\* new is old with e put in at one place.
Inserted(old, new, e) ==
    \E i \in 0..Len(old) :
        new = SubSeq(old, 1, i) \o <<e>> \o SubSeq(old, i + 1, Len(old))

\* C23: whenever add_element returns 1, with any selector, the traversal
\* afterwards is the traversal before with the new element put in at one
\* place: the new element is in it once more than before, and every element
\* that was in it still is, in the same relative order.
C23_AddKeepsElements ==
    (list_state = "live" /\ status = "running" /\ ub = 0)
        => \A node \in AllocChoices(allocated, used), e \in Elems, o \in Orders :
              LET r == p_linked_list_add_element(M, LIST, node, e, o)
              IN  r.ret = 1 => Inserted(Elements, ElementsOf(r.m), e)

\* C24: in every reachable state in which the list holds exactly one element
\* (one add_element call more than remove_element calls has succeeded), head
\* and tail are the same node, whose le_prev and le_next are NULL, and
\* remove_element with OR_HEAD or OR_TAIL returns that element and leaves
\* head and tail NULL.
C24_SingleElement ==
    (list_state = "live" /\ status = "running" /\ ub = 0 /\ held = 1)
        => /\ pt_list_head # NULL
           /\ pt_list_head = pt_list_tail
           /\ heap[pt_list_head].le_next = NULL
           /\ heap[pt_list_head].le_prev = NULL
           /\ \A o \in {OR_HEAD, OR_TAIL} :
                 LET r == p_linked_list_remove_element(M, LIST, o)
                 IN  /\ r.ret = heap[pt_list_head].le_data
                     /\ r.m.pt_list_head = NULL
                     /\ r.m.pt_list_tail = NULL
                     /\ r.m.fault = "none"

====
